---- MODULE Spec2Model ----
(***************************************************************************)
(* A model of SudokuSolver.py: the SudokuCell objects (value and list of   *)
(* possible values), the SudokuGrid that refers to 81 of them and keeps    *)
(* the matrix of cells already used for deduction, and the operations      *)
(* create_from_matrix, set_value, clone, is_solved and solve.              *)
(*                                                                         *)
(* Cells are objects on a heap and a grid holds references to them, as in  *)
(* Python, so that sharing of cells between a grid and its clone is        *)
(* something the model can express.  solve() is single-threaded; it is     *)
(* followed through its loop by the position variable pc, and no other     *)
(* operation runs while pc # "idle".                                       *)
(***************************************************************************)
EXTENDS Integers, Sequences, FiniteSets, TLC

VARIABLES
  matrix,                 \* the argument of create_from_matrix
  heap,                   \* cell object -> [value, possible]
  grid,                   \* grid -> [position -> cell object]   (self._grid)
  used_cell,              \* grid -> [position -> BOOLEAN]       (self._used_cell)
  pc,                     \* position inside solve(), "idle" outside
  self,                   \* the grid solve() runs on
  number_new_determined,  \* local of solve()
  number_iterations,      \* local of solve()
  index,                  \* row*9+column reached by the peer pass
  square_code,            \* square reached by the hidden-single pass
  last,                   \* the last operation called and what it returned
  edits,                  \* grid -> number of set_value calls its values come from
  unsolvable,             \* the grids on which UnsolvableGridError was raised
  ops                     \* number of operations called so far

vars == << matrix, heap, grid, used_cell, pc, self, number_new_determined,
           number_iterations, index, square_code, last, edits, unsolvable, ops >>

locals == << pc, self, number_new_determined, number_iterations, index, square_code >>

----------------------------------------------------------------------------
(* Bounds of the model *)

MaxOps == 3
MaxIterations == 8
MaxLongIterations == 84

----------------------------------------------------------------------------
(* Program constants *)

DEFAULT_VALUE == 0
Size == 9

Digits == 1..Size
Values == 0..Size
Positions == 0..(Size * Size - 1)
Pos(row, column) == (row * Size) + column
RowOf(p) == p \div Size
ColumnOf(p) == p % Size

ORIGINAL == 1
CLONE == 2

----------------------------------------------------------------------------
(* The input matrices, row by row *)

ZeroMatrix == [i \in 1..(Size * Size) |-> 0]

ClassicMatrix ==
  << 5, 3, 0, 0, 7, 0, 0, 0, 0,
     6, 0, 0, 1, 9, 5, 0, 0, 0,
     0, 9, 8, 0, 0, 0, 0, 6, 0,
     8, 0, 0, 0, 6, 0, 0, 0, 3,
     4, 0, 0, 8, 0, 3, 0, 0, 1,
     7, 0, 0, 0, 2, 0, 0, 0, 6,
     0, 6, 0, 0, 0, 0, 2, 8, 0,
     0, 0, 0, 4, 1, 9, 0, 0, 5,
     0, 0, 0, 0, 8, 0, 0, 7, 9 >>

SolvedMatrix ==
  << 5, 3, 4, 6, 7, 8, 9, 1, 2,
     6, 7, 2, 1, 9, 5, 3, 4, 8,
     1, 9, 8, 3, 4, 2, 5, 6, 7,
     8, 5, 9, 7, 6, 1, 4, 2, 3,
     4, 2, 6, 8, 5, 3, 7, 9, 1,
     7, 1, 3, 9, 2, 4, 8, 5, 6,
     9, 6, 1, 5, 3, 7, 2, 8, 4,
     2, 8, 7, 4, 1, 9, 6, 3, 5,
     3, 4, 5, 2, 8, 6, 1, 7, 9 >>

\* The only place left for 1 in square 0 is the cell that holds 5.
BlockedMatrix ==
  << 5, 0, 0, 0, 0, 0, 0, 0, 0,
     0, 0, 0, 1, 0, 0, 0, 0, 0,
     0, 0, 0, 0, 0, 0, 1, 0, 0,
     0, 1, 0, 0, 0, 0, 0, 0, 0,
     0, 0, 0, 0, 0, 0, 0, 0, 0,
     0, 0, 0, 0, 0, 0, 0, 0, 0,
     0, 0, 1, 0, 0, 0, 0, 0, 0,
     0, 0, 0, 0, 0, 0, 0, 0, 0,
     0, 0, 0, 0, 0, 0, 0, 0, 0 >>

\* BlockedMatrix without the 5: solve() places three digits and stalls.
OnesMatrix ==
  << 0, 0, 0, 0, 0, 0, 0, 0, 0,
     0, 0, 0, 1, 0, 0, 0, 0, 0,
     0, 0, 0, 0, 0, 0, 1, 0, 0,
     0, 1, 0, 0, 0, 0, 0, 0, 0,
     0, 0, 0, 0, 0, 0, 0, 0, 0,
     0, 0, 0, 0, 0, 0, 0, 0, 0,
     0, 0, 1, 0, 0, 0, 0, 0, 0,
     0, 0, 0, 0, 0, 0, 0, 0, 0,
     0, 0, 0, 0, 0, 0, 0, 0, 0 >>

\* m with the entry at (row, column) replaced by v
With(m, row, column, v) == [m EXCEPT ![Pos(row, column) + 1] = v]

\* 5 at (0,0) and the 1s that leave (0,2) the only unknown cell of square 0
\* to list 1
PinnedMatrix == With(With(OnesMatrix, 6, 2, 0), 0, 0, 5)

\* SolvedMatrix with square 0 unknown
OpenSquareMatrix ==
  [i \in 1..(Size * Size) |->
     IF RowOf(i - 1) <= 2 /\ ColumnOf(i - 1) <= 2 THEN 0 ELSE SolvedMatrix[i]]

\* SolvedMatrix with the 1s and 3s of rows 3 and 4 unknown: either way round
\* completes it
RectangleMatrix ==
  With(With(With(With(SolvedMatrix, 3, 5, 0), 3, 8, 0), 4, 5, 0), 4, 8, 0)

\* The values the variations of SolvedMatrix take at (0,0) and at (0,1)
FirstValues == { 0, 5 }
SecondValues == { 3, 4 }

Inputs ==
  { ZeroMatrix, ClassicMatrix, BlockedMatrix, OnesMatrix,
    OpenSquareMatrix, With(OpenSquareMatrix, 0, 3, 5), RectangleMatrix,
    PinnedMatrix }
  \cup { With(With(SolvedMatrix, 0, 0, a), 0, 1, b) :
           a \in FirstValues, b \in SecondValues }

----------------------------------------------------------------------------
(* SudokuCell *)

\* SudokuCell.__init__
SudokuCell(v) ==
  [ value |-> v,
    possible |-> IF v # DEFAULT_VALUE THEN {v} ELSE 1..9 ]

\* set_value that builds the cell anew from the value, as the constructor does
set_value_reseed(h, c, v) == [h EXCEPT ![c] = SudokuCell(v)]

\* SudokuCell.set_value: the value alone, the possible values stay
set_value(h, c, v) == [h EXCEPT ![c].value = v]

is_value_possible(h, c, v) == v \in h[c].possible

is_value_certain(h, c) == h[c].value # DEFAULT_VALUE

\* What a call gives back: the heap it leaves, the value it returns and
\* whether it raised UnsolvableGridError
Outcome(h, ret, raised) == [heap |-> h, ret |-> ret, raised |-> raised]

\* can_value_be_determined without the branch that raises
can_value_be_determined_silent(h, c) ==
  IF is_value_certain(h, c)
    THEN Outcome(h, FALSE, FALSE)
  ELSE IF Cardinality(h[c].possible) = 1
    THEN Outcome(set_value(h, c, CHOOSE x \in h[c].possible : TRUE), TRUE, FALSE)
  ELSE Outcome(h, FALSE, FALSE)

can_value_be_determined(h, c) ==
  IF is_value_certain(h, c)
    THEN Outcome(h, FALSE, FALSE)
  ELSE IF Cardinality(h[c].possible) = 1
    THEN Outcome(set_value(h, c, CHOOSE x \in h[c].possible : TRUE), TRUE, FALSE)
  ELSE IF Cardinality(h[c].possible) = 0
    THEN Outcome(h, FALSE, TRUE)
  ELSE Outcome(h, FALSE, FALSE)

set_value_to_impossible(h, c, v) == [h EXCEPT ![c].possible = @ \ {v}]

eliminate_conflicting_values(h, this, other) ==
  LET self_is_certain == is_value_certain(h, this)
      other_is_certain == is_value_certain(h, other)
  IN  IF self_is_certain /\ ~other_is_certain
        THEN can_value_be_determined(
               set_value_to_impossible(h, other, h[this].value), other)
      ELSE IF ~self_is_certain /\ other_is_certain
        THEN can_value_be_determined(
               set_value_to_impossible(h, this, h[other].value), this)
      ELSE Outcome(h, FALSE, FALSE)

\* clone as a copy of the cell, possible values included
clone_cell_copy(h, c) == h[c]

\* SudokuCell.clone: a new cell made from the value alone
clone_cell(h, c) == SudokuCell(h[c].value)

----------------------------------------------------------------------------
(* SudokuGrid *)

\* The cell objects of the first grid and those clone() allocates
OriginalCell(p) == p
ClonedCell(p) == Size * Size + p

\* SudokuGrid.__init__: 81 cells of unknown value, no cell used
EmptyCells == [c \in Positions |-> SudokuCell(DEFAULT_VALUE)]
NoneUsed == [p \in Positions |-> FALSE]

\* SudokuGrid.create_from_matrix: an empty grid, then set_value on each cell
create_from_matrix(m) ==
  [c \in Positions |-> [EmptyCells[c] EXCEPT !.value = m[c + 1]]]

\* SudokuGrid.get_as_matrix
get_as_matrix(h, cs) == [i \in 1..(Size * Size) |-> h[cs[i - 1]].value]

\* get_square_code with the parts of row and column exchanged in the code
get_square_code_transposed(row, column) ==
  LET horizontal_num == IF row <= 2 THEN 0 ELSE IF row <= 5 THEN 1 ELSE 2
      vertical_num == IF column <= 2 THEN 0 ELSE IF column <= 5 THEN 1 ELSE 2
  IN  (vertical_num * 3) + horizontal_num

get_square_code(row, column) ==
  LET horizontal_num == IF row <= 2 THEN 0 ELSE IF row <= 5 THEN 1 ELSE 2
      vertical_num == IF column <= 2 THEN 0 ELSE IF column <= 5 THEN 1 ELSE 2
  IN  (horizontal_num * 3) + vertical_num

\* The positions of the cells get_square_cells returns, in its order
square_positions(code) ==
  LET horizontal_num == code % 3
      vertical_num == (code - horizontal_num) \div 3
  IN  [i \in 1..9 |-> Pos((vertical_num * 3) + ((i - 1) \div 3),
                          (horizontal_num * 3) + ((i - 1) % 3))]

get_square_cells(cs, code) ==
  [i \in 1..9 |-> cs[square_positions(code)[i]]]

\* SudokuGrid.is_solved from the given index on
RECURSIVE is_solved_from(_, _, _)
is_solved_from(h, cs, i) ==
  IF i >= Size * Size
    THEN Outcome(h, TRUE, FALSE)
  ELSE IF is_value_certain(h, cs[i])
    THEN is_solved_from(h, cs, i + 1)
  ELSE LET r == can_value_be_determined(h, cs[i])
       IN  IF r.raised THEN r
           ELSE IF r.ret THEN is_solved_from(r.heap, cs, i)
           ELSE Outcome(r.heap, FALSE, FALSE)

is_solved(h, cs) == is_solved_from(h, cs, 0)

----------------------------------------------------------------------------
(* solve(): the peer pass for one cell *)

\* row_column_cells with row and column exchanged in the row access
RECURSIVE row_column_cells_exchanged(_, _, _, _)
row_column_cells_exchanged(cs, row, column, k) ==
  IF k >= Size THEN << >>
  ELSE (IF k # column THEN << cs[Pos(k, row)] >> ELSE << >>)
       \o (IF k # row THEN << cs[Pos(k, column)] >> ELSE << >>)
       \o row_column_cells_exchanged(cs, row, column, k + 1)

\* The cells of the row and of the column of (row, column), in the order of
\* the loop over k
RECURSIVE row_column_cells(_, _, _, _)
row_column_cells(cs, row, column, k) ==
  IF k >= Size THEN << >>
  ELSE (IF k # column THEN << cs[Pos(row, k)] >> ELSE << >>)
       \o (IF k # row THEN << cs[Pos(k, column)] >> ELSE << >>)
       \o row_column_cells(cs, row, column, k + 1)

\* The cells of the square other than the cell itself
other_square_cells(cs, row, column) ==
  SelectSeq(get_square_cells(cs, get_square_code(row, column)),
            LAMBDA c : c # cs[Pos(row, column)])

\* One guarded call of eliminate_conflicting_values; acc carries the heap,
\* the determinations counted and whether a call raised
eliminate_one(acc, c, comparison_cell) ==
  IF acc.raised \/ is_value_certain(acc.heap, c)
    THEN acc
  ELSE LET r == eliminate_conflicting_values(acc.heap, c, comparison_cell)
       IN  [ heap |-> r.heap,
             count |-> acc.count + (IF r.ret THEN 1 ELSE 0),
             raised |-> r.raised ]

RECURSIVE eliminate_all(_, _, _, _)
eliminate_all(acc, cells, i, comparison_cell) ==
  IF i > Len(cells) THEN acc
  ELSE eliminate_all(eliminate_one(acc, cells[i], comparison_cell),
                     cells, i + 1, comparison_cell)

\* The body of the peer pass for the cell at p
use_cell(h, cs, p) ==
  eliminate_all([heap |-> h, count |-> 0, raised |-> FALSE],
                row_column_cells(cs, RowOf(p), ColumnOf(p), 0)
                  \o other_square_cells(cs, RowOf(p), ColumnOf(p)),
                1, cs[p])

\* to_be_used without the test that the cell is certain
to_be_used_any(h, cs, used, p) == ~used[p]

\* The condition under which the peer pass uses the cell at p
to_be_used(h, cs, used, p) == is_value_certain(h, cs[p]) /\ ~used[p]

----------------------------------------------------------------------------
(* solve(): the hidden-single pass for one square *)

\* possible_cells with a loop that stops at the first cell found
RECURSIVE possible_cells_first(_, _, _, _, _)
possible_cells_first(h, square_cells, v, cell_index, found) ==
  IF cell_index <= Len(square_cells) /\ Len(found) < 1
    THEN possible_cells_first(h, square_cells, v, cell_index + 1,
           IF is_value_possible(h, square_cells[cell_index], v)
             THEN Append(found, square_cells[cell_index])
             ELSE found)
  ELSE found

\* The while loop that collects the cells the value is possible in, and
\* stops at two
RECURSIVE possible_cells(_, _, _, _, _)
possible_cells(h, square_cells, v, cell_index, found) ==
  IF cell_index <= Len(square_cells) /\ Len(found) < 2
    THEN possible_cells(h, square_cells, v, cell_index + 1,
           IF is_value_possible(h, square_cells[cell_index], v)
             THEN Append(found, square_cells[cell_index])
             ELSE found)
  ELSE found

values_to_check(h, square_cells) ==
  Digits \ { h[square_cells[i]].value : i \in 1..Len(square_cells) }

\* check_value with else in place of elif: raises unless exactly one cell
check_value_else(acc, square_cells, v) ==
  IF acc.raised THEN acc
  ELSE LET found == possible_cells(acc.heap, square_cells, v, 1, << >>)
       IN  IF Len(found) = 1
             THEN [ heap |-> set_value(acc.heap, found[1], v),
                    count |-> acc.count + 1,
                    raised |-> FALSE ]
           ELSE [acc EXCEPT !.raised = TRUE]

check_value(acc, square_cells, v) ==
  IF acc.raised THEN acc
  ELSE LET found == possible_cells(acc.heap, square_cells, v, 1, << >>)
       IN  IF Len(found) = 1
             THEN [ heap |-> set_value(acc.heap, found[1], v),
                    count |-> acc.count + 1,
                    raised |-> FALSE ]
           ELSE IF Len(found) = 0
             THEN [acc EXCEPT !.raised = TRUE]
           ELSE acc

RECURSIVE check_values(_, _, _, _)
check_values(acc, square_cells, to_check, v) ==
  IF v > Size THEN acc
  ELSE check_values(IF v \in to_check THEN check_value(acc, square_cells, v) ELSE acc,
                    square_cells, to_check, v + 1)

\* The body of the hidden-single pass for one square
check_square(h, cs, code) ==
  LET square_cells == get_square_cells(cs, code)
  IN  check_values([heap |-> h, count |-> 0, raised |-> FALSE],
                   square_cells, values_to_check(h, square_cells), 1)

----------------------------------------------------------------------------
(* The state after construction *)

Init ==
  /\ matrix \in Inputs
  /\ heap = create_from_matrix(matrix)
  /\ grid = (ORIGINAL :> [p \in Positions |-> OriginalCell(p)])
  /\ used_cell = (ORIGINAL :> NoneUsed)
  /\ pc = "idle"
  /\ self = ORIGINAL
  /\ number_new_determined = 0
  /\ number_iterations = 0
  /\ index = 0
  /\ square_code = 0
  /\ last = [op |-> "create_from_matrix", grid |-> ORIGINAL, ret |-> "none"]
  /\ edits = (ORIGINAL :> 0)
  /\ unsolvable = {}
  /\ ops = 0

Returned(r) == IF r.raised THEN "raised" ELSE IF r.ret THEN "true" ELSE "false"

EditCells == { <<0, 2>> }
EditValues == { 0, 7 }

----------------------------------------------------------------------------
(* The operations *)

\* SudokuGrid.set_value
SetValue(g, row, column, v) ==
  /\ pc = "idle"
  /\ ops < MaxOps
  /\ heap' = set_value(heap, grid[g][Pos(row, column)], v)
  /\ edits' = [edits EXCEPT ![g] = @ + 1]
  /\ last' = [op |-> "set_value", grid |-> g, ret |-> "none"]
  /\ ops' = ops + 1
  /\ UNCHANGED << matrix, grid, used_cell, locals, unsolvable >>

\* SudokuGrid.clone, of the first grid
clone_heap(h, cs) ==
  [c \in (DOMAIN h) \cup { ClonedCell(p) : p \in Positions } |->
     IF c \in { ClonedCell(p) : p \in Positions }
       THEN clone_cell(h, cs[c - Size * Size])
       ELSE h[c]]

\* clone that puts the cells of the original into the new grid
clone_grid_shared(cs) == cs

clone_grid(cs) == [p \in Positions |-> ClonedCell(p)]

clone_used(used) == NoneUsed

Clone ==
  /\ pc = "idle"
  /\ ops < MaxOps
  /\ heap' = clone_heap(heap, grid[ORIGINAL])
  /\ grid' = (ORIGINAL :> grid[ORIGINAL]) @@ (CLONE :> clone_grid(grid[ORIGINAL]))
  /\ used_cell' = (ORIGINAL :> used_cell[ORIGINAL])
                    @@ (CLONE :> clone_used(used_cell[ORIGINAL]))
  /\ edits' = (ORIGINAL :> edits[ORIGINAL]) @@ (CLONE :> edits[ORIGINAL])
  /\ unsolvable' = unsolvable \ {CLONE}
  /\ ops' = ops + 1
  /\ last' = [op |-> "clone", grid |-> CLONE, ret |-> "none"]
  /\ UNCHANGED << matrix, locals >>

\* SudokuGrid.is_solved, called from outside solve()
IsSolved(g) ==
  /\ pc = "idle"
  /\ ops < MaxOps
  /\ LET r == is_solved(heap, grid[g])
     IN  /\ heap' = r.heap
         /\ last' = [op |-> "is_solved", grid |-> g, ret |-> Returned(r)]
         /\ unsolvable' = IF r.raised THEN unsolvable \cup {g} ELSE unsolvable
  /\ ops' = ops + 1
  /\ UNCHANGED << matrix, grid, used_cell, locals, edits >>

\* solve() is called
SolveBegin(g) ==
  /\ pc = "idle"
  /\ ops < MaxOps
  /\ pc' = "while"
  /\ self' = g
  /\ number_new_determined' = -1
  /\ number_iterations' = 0
  /\ index' = 0
  /\ square_code' = 0
  /\ ops' = ops + 1
  /\ last' = [op |-> "solve", grid |-> g, ret |-> "none"]
  /\ UNCHANGED << matrix, heap, grid, used_cell, edits, unsolvable >>

\* solve() raises: the exception leaves solve() at once
Raise(h) ==
  /\ heap' = h
  /\ pc' = "idle"
  /\ last' = [last EXCEPT !.ret = "raised"]
  /\ unsolvable' = unsolvable \cup {self}

\* The loop condition with or in place of and
enter_loop_or(n, solved) == (n # 0) \/ ~solved

\* The loop condition; is_solved() is called only when the first conjunct holds
enter_loop(n, solved) == (n # 0) /\ ~solved

SolveWhile(cap) ==
  /\ pc = "while"
  /\ LET r == IF number_new_determined # 0
                THEN is_solved(heap, grid[self])
                ELSE Outcome(heap, FALSE, FALSE)
     IN  IF r.raised
           THEN /\ Raise(r.heap)
                /\ UNCHANGED << number_new_determined, number_iterations, index >>
         ELSE IF enter_loop(number_new_determined, r.ret)
           THEN /\ number_iterations < cap
                /\ heap' = r.heap
                /\ number_iterations' = number_iterations + 1
                /\ number_new_determined' = 0
                /\ index' = 0
                /\ pc' = "peers"
                /\ UNCHANGED << last, unsolvable >>
         ELSE /\ heap' = r.heap
              /\ pc' = "return"
              /\ UNCHANGED << number_new_determined, number_iterations, index,
                              last, unsolvable >>
  /\ UNCHANGED << matrix, grid, used_cell, self, square_code, edits, ops >>

\* The loops over row and column: the first position from p on whose cell
\* the peer pass uses, Size * Size when there is none
RECURSIVE next_used(_, _, _, _)
next_used(h, cs, used, p) ==
  IF p >= Size * Size THEN Size * Size
  ELSE IF to_be_used(h, cs, used, p) THEN p
  ELSE next_used(h, cs, used, p + 1)

NextUsed == next_used(heap, grid[self], used_cell[self], index)

\* The peer pass reaches the next certain cell not used yet and uses it
SolvePeers ==
  /\ pc = "peers"
  /\ NextUsed < Size * Size
  /\ LET p == NextUsed
         r == use_cell(heap, grid[self], p)
     IN  IF r.raised
           THEN /\ Raise(r.heap)
                /\ UNCHANGED << used_cell, number_new_determined, index >>
         ELSE /\ heap' = r.heap
              /\ number_new_determined' = number_new_determined + r.count
              /\ used_cell' = [used_cell EXCEPT ![self][p] = TRUE]
              /\ index' = p + 1
              /\ UNCHANGED << pc, last, unsolvable >>
  /\ UNCHANGED << matrix, grid, self, number_iterations, square_code, edits, ops >>

\* The peer pass finds no further cell to use; the hidden-single pass starts
SolvePeersEnd ==
  /\ pc = "peers"
  /\ NextUsed >= Size * Size
  /\ pc' = "squares"
  /\ square_code' = 0
  /\ UNCHANGED << matrix, heap, grid, used_cell, self, number_new_determined,
                  number_iterations, index, last, edits, unsolvable, ops >>

\* The hidden-single pass for the square square_code
SolveSquare ==
  /\ pc = "squares"
  /\ square_code < 9
  /\ LET r == check_square(heap, grid[self], square_code)
     IN  IF r.raised
           THEN /\ Raise(r.heap)
                /\ UNCHANGED << number_new_determined, square_code >>
         ELSE /\ heap' = r.heap
              /\ number_new_determined' = number_new_determined + r.count
              /\ square_code' = square_code + 1
              /\ UNCHANGED << pc, last, unsolvable >>
  /\ UNCHANGED << matrix, grid, used_cell, self, number_iterations, index,
                  edits, ops >>

\* The hidden-single pass is over; back to the loop condition
SolveSquaresEnd ==
  /\ pc = "squares"
  /\ square_code >= 9
  /\ pc' = "while"
  /\ UNCHANGED << matrix, heap, grid, used_cell, self, number_new_determined,
                  number_iterations, index, square_code, last, edits, unsolvable, ops >>

\* return self.is_solved()
SolveReturn ==
  /\ pc = "return"
  /\ LET r == is_solved(heap, grid[self])
     IN  /\ heap' = r.heap
         /\ last' = [last EXCEPT !.ret = Returned(r)]
         /\ unsolvable' = IF r.raised THEN unsolvable \cup {self} ELSE unsolvable
  /\ pc' = "idle"
  /\ UNCHANGED << matrix, grid, used_cell, self, number_new_determined,
                  number_iterations, index, square_code, edits, ops >>

SetValueAny ==
  \E g \in DOMAIN grid : \E p \in EditCells : \E v \in EditValues :
    SetValue(g, p[1], p[2], v)

IsSolvedAny == \E g \in DOMAIN grid : IsSolved(g)

SolveBeginAny == \E g \in DOMAIN grid : SolveBegin(g)

Next ==
  \/ SetValueAny
  \/ Clone
  \/ IsSolvedAny
  \/ SolveBeginAny
  \/ SolveWhile(MaxIterations)
  \/ SolvePeers
  \/ SolvePeersEnd
  \/ SolveSquare
  \/ SolveSquaresEnd
  \/ SolveReturn

Spec == Init /\ [][Next]_vars

\* solve() alone, on the two sparse inputs, followed for more iterations
InitLong == Init /\ matrix \in { BlockedMatrix, ZeroMatrix }

NextLong ==
  \/ SolveBegin(ORIGINAL)
  \/ SolveWhile(MaxLongIterations)
  \/ SolvePeers
  \/ SolvePeersEnd
  \/ SolveSquare
  \/ SolveSquaresEnd
  \/ SolveReturn

SpecLong == InitLong /\ [][NextLong]_vars

----------------------------------------------------------------------------
(* What the claims speak of *)

Grids == DOMAIN grid

\* The cell object of grid g at position p, and its fields
CellAt(g, p) == heap[grid[g][p]]

\* The cell objects grid g refers to
CellsOf(g) == { grid[g][p] : p \in Positions }

AllCertain(g) == \A p \in Positions : CellAt(g, p).value # DEFAULT_VALUE

\* The 27 groups of positions: rows, columns and 3x3 boxes
RowPositions(r) == { p \in Positions : RowOf(p) = r }
ColumnPositions(c) == { p \in Positions : ColumnOf(p) = c }
BoxPositions(k) ==
  { p \in Positions : ((RowOf(p) \div 3) * 3) + (ColumnOf(p) \div 3) = k }
Groups ==
  { RowPositions(r) : r \in 0..8 } \cup { ColumnPositions(c) : c \in 0..8 }
    \cup { BoxPositions(k) : k \in 0..8 }

PeerPositions ==
  [p \in Positions |-> { q \in Positions \ {p} : \E u \in Groups : p \in u /\ q \in u }]

\* Each digit exactly once in every row, column and box
IsValid(m) ==
  \A u \in Groups : \A d \in Digits : Cardinality({ p \in u : m[p + 1] = d }) = 1

\* No two equal digits in a group
Consistent(m) ==
  \A p \in Positions :
    m[p + 1] # 0 => (m[p + 1] \in Digits /\ \A q \in PeerPositions[p] : m[q + 1] # m[p + 1])

Allowed(m, p) == Digits \ { m[q + 1] : q \in PeerPositions[p] }

\* Every group still has a place for every digit it lacks
HasPlaces(m) ==
  \A u \in Groups : \A d \in Digits :
    \E p \in u : m[p + 1] = d \/ (m[p + 1] = 0 /\ d \in Allowed(m, p))

\* Backtracking over the unknown entries, first one first
RECURSIVE Search(_)
Search(m) ==
  LET unknown == { p \in Positions : m[p + 1] = 0 }
  IN  IF unknown = {} THEN TRUE
      ELSE IF ~HasPlaces(m) THEN FALSE
      ELSE LET p == CHOOSE q \in unknown : \A o \in unknown : q <= o
           IN  \E d \in Allowed(m, p) : Search([m EXCEPT ![p + 1] = d])

\* m has a valid completion: a full assignment of 1..9 that keeps the
\* non-zero entries of m and has each digit once per row, column and box
HasCompletion(m) == Consistent(m) /\ Search(m)

IterationLimit == (Size * Size) + 1

----------------------------------------------------------------------------
(* C1: whenever solve() returns true, the grid has each digit 1..9 exactly  *)
(* once in every row, every column and every 3x3 box.                      *)
SolvedGridIsValid ==
  (pc = "idle" /\ last.op = "solve" /\ last.ret = "true")
    => IsValid(get_as_matrix(heap, grid[last.grid]))

(* C2: the loop of solve() runs at most 81 + 1 times.                      *)
IterationsBounded == number_iterations <= IterationLimit

(* C3: when solve() raises UnsolvableGridError on a grid whose values come *)
(* from the input matrix alone (no set_value call), the input matrix has   *)
(* no valid completion.                                                    *)
RaiseMeansNoCompletion ==
  (pc = "idle" /\ last.op = "solve" /\ last.ret = "raised" /\ edits[last.grid] = 0)
    => ~HasCompletion(matrix)

RaisedOnInput ==
  /\ pc = "idle" /\ last.op = "solve" /\ last.ret = "raised"
  /\ last.grid = ORIGINAL /\ edits[ORIGINAL] = 0

(* C4: Invariant A: every cell whose value is not 0 has exactly that value *)
(* as its possible values.                                                 *)
InvariantA ==
  \A g \in Grids : \A p \in Positions :
    CellAt(g, p).value # 0 => CellAt(g, p).possible = { CellAt(g, p).value }

(* C5: Invariant B: a cell of value 0 has possible values within 1..9, and *)
(* they are empty only on a grid on which the emptying was reported by     *)
(* UnsolvableGridError.                                                    *)
InvariantB ==
  \A g \in Grids : \A p \in Positions :
    CellAt(g, p).value = 0 =>
      /\ CellAt(g, p).possible \subseteq Digits
      /\ CellAt(g, p).possible = {} => g \in unsolvable

EmptiedAndRaised ==
  /\ pc = "idle" /\ last.op = "solve" /\ last.ret = "raised"
  /\ \E p \in Positions :
       CellAt(last.grid, p).value = 0 /\ CellAt(last.grid, p).possible = {}

(* C6: right after clone(), the clone is in the state create_from_matrix   *)
(* gives on the matrix of the original: same value and same possible       *)
(* values in each cell, no cell used.                                      *)
CloneIsRebuild ==
  last.op = "clone" =>
    /\ \A p \in Positions :
         CellAt(CLONE, p) = create_from_matrix(get_as_matrix(heap, grid[ORIGINAL]))[p]
    /\ used_cell[CLONE] = NoneUsed

(* C7: right after clone(), every cell of the clone has the value of the   *)
(* original's cell, every cell of value 0 has all of 1..9 possible, and no *)
(* cell of the clone is marked used.                                       *)
CloneReseeds ==
  last.op = "clone" =>
    \A p \in Positions :
      /\ CellAt(CLONE, p).value = CellAt(ORIGINAL, p).value
      /\ CellAt(CLONE, p).value = 0 => CellAt(CLONE, p).possible = 1..9
      /\ ~used_cell[CLONE][p]

ClonedNarrowed ==
  /\ last.op = "clone"
  /\ \E p \in Positions :
       /\ CellAt(ORIGINAL, p).value = 0
       /\ Cardinality(CellAt(ORIGINAL, p).possible) = 2
  /\ \E p \in Positions : used_cell[ORIGINAL][p]

(* C8: Invariant C: the clone shares no cell with the original, and no     *)
(* step of an operation on the clone (set_value, is_solved, solve) changes *)
(* a value, the possible values or a used flag of the original.            *)
OriginalState == [p \in Positions |-> CellAt(ORIGINAL, p)]

StepOnClone ==
  \/ pc # "idle" /\ self = CLONE
  \/ pc = "idle" /\ CLONE \in Grids /\ last'.grid = CLONE /\ last'.op # "clone"

CloneIsIndependent ==
  [][ /\ CLONE \in Grids => CellsOf(ORIGINAL) \cap CellsOf(CLONE) = {}
      /\ StepOnClone =>
           /\ OriginalState' = OriginalState
           /\ used_cell'[ORIGINAL] = used_cell[ORIGINAL] ]_vars

CloneRaised ==
  /\ pc = "idle" /\ last.op = "solve" /\ last.grid = CLONE /\ last.ret = "raised"
  /\ \E p \in Positions : CellAt(CLONE, p) # CellAt(ORIGINAL, p)

(* C9: solve() called on a grid whose 81 cells are all certain goes from   *)
(* the loop condition straight to the return, returns true and changes no *)
(* value, no possible values and no used flag.                             *)
SolvedIsNoOp ==
  [][ ( /\ AllCertain(self)
        /\ \/ pc = "while" /\ number_new_determined = -1
           \/ pc = "return" )
      => /\ heap' = heap
         /\ used_cell' = used_cell
         /\ pc' \in { "return", "idle" }
         /\ pc' = "idle" => last'.ret = "true" ]_vars

SolvedTwice ==
  /\ pc = "idle" /\ last.op = "solve" /\ last.ret = "true"
  /\ number_iterations = 0 /\ ops >= 2

(* C10: on the grid built from the all-zero matrix, solve() returns false  *)
(* and the matrix of the grid is still all zeros.                          *)
ZeroStalls ==
  (matrix = ZeroMatrix /\ pc = "idle" /\ last.op = "solve" /\ edits[last.grid] = 0)
    => /\ last.ret = "false"
       /\ get_as_matrix(heap, grid[last.grid]) = ZeroMatrix

ZeroSolved ==
  /\ matrix = ZeroMatrix /\ pc = "idle" /\ last.op = "solve"
  /\ last.grid = ORIGINAL /\ edits[ORIGINAL] = 0 /\ last.ret = "false"

(* C11: no step of any operation adds a digit to the possible values of a  *)
(* cell: the possible values of every cell after a step are a subset of    *)
(* those before it, hence of those in every earlier state.  (The cells of  *)
(* a grid that clone() creates are new objects: they have no earlier       *)
(* state.)                                                                 *)
PossibleOnlyShrinks ==
  [][ \A c \in DOMAIN heap :
        (last'.op = "clone" => c \in CellsOf(ORIGINAL))
          => heap'[c].possible \subseteq heap[c].possible ]_vars

NarrowedBySolve ==
  /\ pc = "idle" /\ last.op = "solve" /\ last.ret = "false"
  /\ \E p \in Positions :
       /\ CellAt(last.grid, p).value = 0
       /\ Cardinality(CellAt(last.grid, p).possible) \in 2..8

(* C12: a cell whose value is certain is not made unknown again by any     *)
(* later step (of solve, is_solved or set_value on its grid), so that a    *)
(* cell marked used is never uncertain.                                    *)
CertainStaysCertain ==
  [][ /\ \A c \in DOMAIN heap :
           (last'.op = "clone" => c \in CellsOf(ORIGINAL))
             => (heap[c].value # DEFAULT_VALUE => heap'[c].value # DEFAULT_VALUE)
      /\ \A g \in DOMAIN grid' : \A p \in Positions :
           used_cell'[g][p] => heap'[grid'[g][p]].value # DEFAULT_VALUE ]_vars

(* C12 as amended: no step of solve() or is_solved() makes a certain cell  *)
(* unknown again, only a set_value call does (with the value 0); and a     *)
(* cell marked used is uncertain only from such a set_value call on.       *)
OnlySetValueClears ==
  [][ /\ \A c \in DOMAIN heap :
           ( /\ last'.op = "clone" => c \in CellsOf(ORIGINAL)
             /\ heap[c].value # DEFAULT_VALUE
             /\ heap'[c].value = DEFAULT_VALUE )
             => (pc = "idle" /\ last'.op = "set_value")
      /\ \A g \in DOMAIN grid' : \A p \in Positions :
           (used_cell'[g][p] /\ heap'[grid'[g][p]].value = DEFAULT_VALUE)
             => \/ pc = "idle" /\ last'.op = "set_value"
                \/ /\ g \in DOMAIN grid
                   /\ used_cell[g][p]
                   /\ heap[grid[g][p]].value = DEFAULT_VALUE ]_vars

DeterminedStaysCertain ==
  /\ pc = "idle" /\ last.op = "is_solved" /\ ops >= 2
  /\ \E p \in Positions :
       /\ matrix[p + 1] = 0
       /\ CellAt(last.grid, p).value # DEFAULT_VALUE
       /\ used_cell[last.grid][p]

(* C13: get_square_code(r, c) = (r div 3)*3 + (c div 3) for r, c in 0..8;  *)
(* the codes 0..8 split the 81 positions into 9 squares of 9 positions,    *)
(* square 4 is that of the rows and columns 3..5, and get_square_cells(k)  *)
(* returns, once each, the cells of a grid at the positions of code k.     *)
PositionsOfCode ==
  [k \in 0..8 |-> { p \in Positions : get_square_code(RowOf(p), ColumnOf(p)) = k }]

CodesAreBoxes ==
  /\ \A r \in 0..8 : \A c \in 0..8 :
       get_square_code(r, c) = ((r \div 3) * 3) + (c \div 3)
  /\ \A p \in Positions : get_square_code(RowOf(p), ColumnOf(p)) \in 0..8
  /\ \A k \in 0..8 : Cardinality(PositionsOfCode[k]) = 9
  /\ PositionsOfCode[4] = { Pos(r, c) : r \in 3..5, c \in 3..5 }

SquareCodesPartition ==
  /\ CodesAreBoxes
  /\ \A g \in Grids : \A k \in 0..8 :
       LET cells == get_square_cells(grid[g], k)
       IN  /\ Len(cells) = 9
           /\ { cells[i] : i \in 1..9 } = { grid[g][p] : p \in PositionsOfCode[k] }

CentreSquareChecked ==
  /\ pc = "squares" /\ square_code = 5 /\ self = CLONE
  /\ \E p \in PositionsOfCode[4] : used_cell[CLONE][p]

(* C14: during solve(), a cell that is certain keeps its value: no step of  *)
(* the peer pass or of the hidden-single pass gives a certain cell another *)
(* value.                                                                  *)
CertainValueKept ==
  [][ pc # "idle" =>
        \A p \in Positions :
          CellAt(self, p).value # DEFAULT_VALUE
            => heap'[grid[self][p]].value = CellAt(self, p).value ]_vars

(* C15: whenever solve() returns false, no hidden single is left: there is *)
(* no square and digit d, held by no certain cell of the square, that      *)
(* exactly one uncertain cell of the square still lists as possible.       *)
HiddenSingles(g) ==
  { kd \in (0..8) \X Digits :
      /\ \A p \in PositionsOfCode[kd[1]] : CellAt(g, p).value # kd[2]
      /\ Cardinality({ p \in PositionsOfCode[kd[1]] :
                         /\ CellAt(g, p).value = DEFAULT_VALUE
                         /\ kd[2] \in CellAt(g, p).possible }) = 1 }

NoHiddenSingleLeft ==
  (pc = "idle" /\ last.op = "solve" /\ last.ret = "false")
    => HiddenSingles(last.grid) = {}

(* C16: in every state between two iterations of solve() and after it     *)
(* returns, a cell marked used is certain and no uncertain cell of its     *)
(* row, column or square lists its value as possible; and a used flag      *)
(* never goes back from true to false.                                     *)
Propagated(g, p) ==
  /\ CellAt(g, p).value # DEFAULT_VALUE
  /\ \A q \in PeerPositions[p] :
       CellAt(g, q).value = DEFAULT_VALUE
         => CellAt(g, p).value \notin CellAt(g, q).possible

UsedMeansPropagated ==
  [][ /\ ( \/ pc' = "while"
           \/ pc' = "idle" /\ last'.op = "solve" /\ last'.ret \in { "true", "false" } )
        => \A p \in Positions : used_cell'[self'][p] => Propagated(self, p)'
      /\ \A g \in DOMAIN grid : \A p \in Positions :
           (used_cell[g][p] /\ ~(last'.op = "clone" /\ g = CLONE))
             => used_cell'[g][p] ]_vars

(* C17: when the input matrix has a valid completion S, then in every      *)
(* state of a grid whose values come from the input alone (built by        *)
(* create_from_matrix or cloned, no set_value), every certain cell holds   *)
(* the digit of S at its position and every uncertain cell lists it as     *)
(* possible.  S ranges over the completions below: all there are of the    *)
(* inputs that are variations of SolvedMatrix, four of the sparse inputs.  *)
RectangleCompletion ==
  With(With(With(With(SolvedMatrix, 3, 5, 3), 3, 8, 1), 4, 5, 1), 4, 8, 3)

OnesCompletionA ==
  << 1, 5, 4, 3, 6, 8, 7, 9, 2,
     7, 9, 6, 1, 5, 2, 8, 3, 4,
     2, 8, 3, 7, 4, 9, 1, 5, 6,
     9, 1, 5, 2, 8, 3, 4, 6, 7,
     3, 4, 7, 6, 1, 5, 9, 2, 8,
     6, 2, 8, 9, 7, 4, 5, 1, 3,
     4, 7, 1, 5, 2, 6, 3, 8, 9,
     5, 6, 9, 8, 3, 7, 2, 4, 1,
     8, 3, 2, 4, 9, 1, 6, 7, 5 >>

OnesCompletionB ==
  << 1, 7, 8, 2, 4, 3, 5, 9, 6,
     5, 6, 9, 1, 8, 7, 3, 2, 4,
     2, 3, 4, 9, 5, 6, 1, 8, 7,
     9, 1, 2, 7, 3, 4, 8, 6, 5,
     6, 8, 7, 5, 1, 9, 2, 4, 3,
     3, 4, 5, 6, 2, 8, 7, 1, 9,
     7, 2, 1, 4, 9, 5, 6, 3, 8,
     8, 9, 6, 3, 7, 2, 4, 5, 1,
     4, 5, 3, 8, 6, 1, 9, 7, 2 >>

PinnedCompletionA ==
  << 5, 2, 1, 4, 6, 3, 7, 8, 9,
     6, 9, 7, 1, 8, 5, 4, 2, 3,
     8, 4, 3, 7, 9, 2, 1, 5, 6,
     4, 1, 6, 3, 2, 8, 9, 7, 5,
     3, 8, 5, 9, 7, 6, 2, 4, 1,
     2, 7, 9, 5, 1, 4, 6, 3, 8,
     9, 5, 2, 8, 4, 1, 3, 6, 7,
     1, 3, 4, 6, 5, 7, 8, 9, 2,
     7, 6, 8, 2, 3, 9, 5, 1, 4 >>

PinnedCompletionB ==
  << 5, 8, 1, 6, 9, 3, 7, 4, 2,
     9, 7, 6, 1, 4, 2, 8, 3, 5,
     2, 4, 3, 8, 5, 7, 1, 6, 9,
     3, 1, 4, 2, 7, 5, 6, 9, 8,
     6, 5, 2, 3, 8, 9, 4, 1, 7,
     7, 9, 8, 4, 1, 6, 2, 5, 3,
     4, 3, 7, 5, 2, 1, 9, 8, 6,
     1, 6, 9, 7, 3, 8, 5, 2, 4,
     8, 2, 5, 9, 6, 4, 3, 7, 1 >>

KnownCompletions ==
  { S \in { SolvedMatrix, RectangleCompletion, OnesCompletionA, OnesCompletionB,
            PinnedCompletionA, PinnedCompletionB } : IsValid(S) }

\* The known valid completions of m: they keep the non-zero entries of m
CompletionsOf(m) ==
  { S \in KnownCompletions : \A i \in 1..(Size * Size) : m[i] # 0 => S[i] = m[i] }

SoundFor(g, S) ==
  \A p \in Positions :
    IF CellAt(g, p).value # DEFAULT_VALUE
      THEN CellAt(g, p).value = S[p + 1]
      ELSE S[p + 1] \in CellAt(g, p).possible

DeductionsSound ==
  \A S \in CompletionsOf(matrix) : \A g \in Grids :
    edits[g] = 0 => SoundFor(g, S)

DeducedOnClone ==
  /\ pc = "idle" /\ last.op = "solve" /\ last.grid = CLONE /\ edits[CLONE] = 0
  /\ Cardinality(CompletionsOf(matrix)) >= 2
  /\ \E p \in Positions : matrix[p + 1] = 0 /\ CellAt(CLONE, p).value # DEFAULT_VALUE
  /\ \E p \in Positions :
       /\ CellAt(ORIGINAL, p).value = DEFAULT_VALUE
       /\ CellAt(ORIGINAL, p).possible # Digits

====
